---- MODULE Spec2Model ----
(***************************************************************************)
(* Flow execution and trigger dispatch of the automation tool:             *)
(*   FlowRunner / RunnerThread   (app/engine/runner.py)                    *)
(*   RunLogger                   (app/loggers/run_logger.py)               *)
(*   create_action               (app/actions/factory.py)                  *)
(*   BrowserController           (app/actions/browser.py)                  *)
(*   MainWindow run/stop/chain   (app/ui/main_window.py)                   *)
(*                                                                         *)
(* Spec        the dispatcher: the UI thread, the hotkey listener thread   *)
(*             and the scheduler thread calling into MainWindow, and the   *)
(*             RunnerThreads they start.                                   *)
(* SpecRunner  one FlowRunner.run over a flow drawn from the bounded step  *)
(*             vocabulary, with request_stop arriving at any moment.       *)
(* SpecHotkeys, SpecLogger, SpecScheduler                                  *)
(*             the calls of HotkeyManager, RunLogger and SchedulerManager  *)
(*             (app/triggers/hotkeys.py, app/loggers/run_logger.py,        *)
(*             app/triggers/scheduler.py) in any order.                    *)
(* SpecShutdown, SpecCallbacks                                             *)
(*             MainWindow.shutdown during a run; trigger callbacks that    *)
(*             raise.                                                      *)
(* SpecTriggers                                                            *)
(*             _apply_startup_triggers and _load_flows_from_path with the  *)
(*             key lists flows and startup triggers can carry.             *)
(* SpecStorage save_flows and load_flows (app/storage/flows.py) with       *)
(*             Flow.to_dict and Flow.from_dict (app/models/flow.py).       *)
(***************************************************************************)
EXTENDS Integers, Sequences, FiniteSets, TLC

VARIABLES
    flows,            \* MainWindow._flows: the list of Flow objects
    runs,             \* every RunnerThread created so far, in creation order
    runner_thread,    \* MainWindow._runner_thread: 0 (None) or an index of runs
    startup_queue,    \* MainWindow._startup_queue
    startup_trigger,  \* MainWindow._startup_trigger
    call,             \* per thread: the MainWindow call it is inside
    ui_events,        \* run_finished signals queued to the UI thread
    current_run,      \* RunLogger._current_run
    log_file,         \* the lines of the run log (RunLogger._export_path)
    driver,           \* BrowserController._driver is set
    chains,           \* history: the startup chains begun so far
    queue_chain,      \* history: the chain startup_queue belongs to (0: none)
    dropped,          \* history: flows popped from startup_queue and not started
    lastOp,           \* history: the trigger label of the request the last step
                      \* rejected on arrival; "sequence_head" when it rejected
                      \* the first flow of a sequence accepted earlier
    bindings,         \* HotkeyManager._bindings, in insertion order
    listener,         \* HotkeyManager._listener: the hotkeys it was built with
    active_listeners, \* GlobalHotKeys listeners started and not stopped
    peak_listeners,   \* history: most listeners active at once in the last operation
    hk_last,          \* history: the last HotkeyManager call and whether it raised
    jobs,             \* SchedulerManager._jobs: the ScheduledJob of each job id
    aps_jobs,         \* the jobs the BackgroundScheduler holds, in the order added
    scheduler_up,     \* the BackgroundScheduler is running
    closing,          \* history: what MainWindow.shutdown has done, in order
    escaped,          \* history: threads whose loop a callback's exception reached
    returned,         \* history: the last RunLogger or SchedulerManager call made
                      \* from outside a run, with what it returned
    flows_file        \* the flows file on disk: whether it exists and the
                      \* "flows" list of the JSON document in it

vars == <<flows, runs, runner_thread, startup_queue, startup_trigger, call,
          ui_events, current_run, log_file, driver, chains, queue_chain,
          dropped, lastOp, bindings, listener, active_listeners, peak_listeners,
          hk_last, jobs, aps_jobs, scheduler_up, closing, escaped, returned,
          flows_file>>

flowVars == <<flows, flows_file>>

dispatchVars == <<runner_thread, startup_queue, startup_trigger, call,
                  chains, queue_chain, dropped>>

hotkeyVars == <<bindings, listener, active_listeners, peak_listeners, hk_last>>

schedVars == <<jobs, aps_jobs, scheduler_up>>

triggerVars == <<hotkeyVars, schedVars, closing, escaped>>

-----------------------------------------------------------------------------
(* Bounds *)

MaxSteps == 3       \* longest flow drawn by SpecRunner
MaxRuns == 2        \* RunnerThreads created in one behaviour of Spec
MaxLogSteps == 2    \* most StepLogs SpecLogger puts in one record
MaxLogLines == 2    \* most records SpecLogger writes to the run log

-----------------------------------------------------------------------------
(* Values *)

None == "None"

\* RunLogger._current_run when no run is active, and finish_run's None.
NoRun == [none |-> TRUE]

\* The status strings of runner.py and run_logger.py
\* ("运行中", "已完成", "已停止", "失败", "成功").
Running == "Running"
Completed == "Completed"
Stopped == "Stopped"
Failed == "Failed"
Success == "Success"

\* The kinds create_action knows.
ActionKinds ==
    {"type_text", "key_press", "hotkey", "click", "scroll", "wait",
     "focus_window", "move_mouse", "drag_mouse", "browser_open",
     "browser_click", "browser_type", "browser_wait", "browser_press",
     "browser_close"}

\* Kinds whose constructor arguments go through int(...) or list(...), which
\* raise on a parameter of the wrong type.
ConvertingKinds ==
    {"hotkey", "click", "scroll", "wait", "move_mouse", "drag_mouse",
     "browser_wait", "browser_press"}

\* Kinds whose execute calls BrowserController._require_driver.
DriverKinds == {"browser_click", "browser_type", "browser_wait", "browser_press"}

\* A Step: its action tag and whether its params convert ("ok") or not ("bad").
Step(a, p) == [action |-> a, params |-> p]

\* Kinds whose params carry a text to type; the model's params of such a step
\* is that text, its other params being the defaults.
TextKinds == {"type_text", "browser_type"}

\* A summary that carries the text itself.
summary_with_text(step) ==
    IF step.action \in TextKinds
    THEN [text_length |-> Len(step.params), params |-> step.params]
    ELSE [text_length |-> 0, params |-> step.params]

\* Action.summary of the action create_action builds: the text kinds report
\* len(self.text) next to their other fields, the other kinds their fields.
summary(step) ==
    IF step.action \in TextKinds
    THEN [text_length |-> Len(step.params), params |-> None]
    ELSE [text_length |-> 0, params |-> step.params]

\* Kinds whose constructor is called with a keyword it does not have:
\* BrowserOpenAction has no use_defaults field, so the call raises TypeError.
RejectedKinds == {"browser_open"}

\* create_action(step) returns an Action (TRUE) or raises (FALSE).
create_action(step) ==
    /\ step.action \in ActionKinds
    /\ step.action \notin RejectedKinds
    /\ ~(step.action \in ConvertingKinds /\ step.params = "bad")

\* str(exc) of the RuntimeError BrowserController._require_driver raises.
NoDriverMessage == "browser not started, use the open action first"

\* str(exc) of the exception a step's execute raises.
FaultMessage(step, drv) ==
    IF step.action \in DriverKinds /\ ~drv THEN NoDriverMessage
    ELSE "fault in " \o step.action

\* What action.execute(context) can do: return ("ok") or raise ("raise").
ExecuteOutcomes(step, drv) ==
    IF step.action \in DriverKinds /\ ~drv THEN {"raise"}
    ELSE IF step.action = "browser_close" THEN {"ok"}
    ELSE {"ok", "raise"}

\* BrowserController._driver after the step's execute.
DriverAfter(step, drv, outcome) ==
    IF step.action = "browser_open" THEN
        IF outcome = "ok" THEN {TRUE} ELSE {drv, TRUE}
    ELSE IF step.action = "browser_close" THEN {FALSE}
    ELSE {drv}

\* A Flow: hotkey and schedule say whether the flow has that trigger.
Flow(id, steps, hotkey, schedule) ==
    [flow_id |-> id, steps |-> steps, hotkey |-> hotkey, schedule |-> schedule]

-----------------------------------------------------------------------------
(* Flow.to_dict, Flow.from_dict, save_flows and load_flows *)

\* None where a record is expected: an absent trigger, a JSON null.
Null == [none |-> TRUE]

\* The dataclasses of app/models/flow.py with every field, as the storage
\* functions see them.  A params dict is the sequence of its items; a value
\* is tagged with its Python type.
HotkeyTrigger(keys) == [keys |-> keys]
ScheduleTrigger(schedule_type, expression) ==
    [schedule_type |-> schedule_type, expression |-> expression]
Param(key, type, repr) == [key |-> key, type |-> type, repr |-> repr]
StoredStep(action, params) == [action |-> action, params |-> params]
StoredFlow(flow_id, name, steps, hotkey, schedule, require_window_focus) ==
    [flow_id |-> flow_id, name |-> name, steps |-> steps, hotkey |-> hotkey,
     schedule |-> schedule, require_window_focus |-> require_window_focus]

\* A to_dict that tests the key list where to_dict tests the trigger object.
to_dict_tests_keys(flow) ==
    [id |-> flow.flow_id,
     name |-> flow.name,
     steps |-> [j \in 1..Len(flow.steps) |->
                   [action |-> flow.steps[j].action, params |-> flow.steps[j].params]],
     hotkey |-> IF flow.hotkey # Null /\ flow.hotkey.keys # <<>>
                THEN [keys |-> flow.hotkey.keys] ELSE Null,
     schedule |-> IF flow.schedule # Null
                  THEN [type |-> flow.schedule.schedule_type,
                        expression |-> flow.schedule.expression]
                  ELSE Null,
     require_window_focus |-> flow.require_window_focus]

\* Flow.to_dict: a trigger object is truthy whatever its fields hold.
to_dict(flow) ==
    [id |-> flow.flow_id,
     name |-> flow.name,
     steps |-> [j \in 1..Len(flow.steps) |->
                   [action |-> flow.steps[j].action, params |-> flow.steps[j].params]],
     hotkey |-> IF flow.hotkey # Null THEN [keys |-> flow.hotkey.keys] ELSE Null,
     schedule |-> IF flow.schedule # Null
                  THEN [type |-> flow.schedule.schedule_type,
                        expression |-> flow.schedule.expression]
                  ELSE Null,
     require_window_focus |-> flow.require_window_focus]

\* Flow.from_dict, on a payload that has every key: a dict with a key in it
\* is truthy, null is not.
from_dict(payload) ==
    StoredFlow(payload.id, payload.name,
               [j \in 1..Len(payload.steps) |->
                   StoredStep(payload.steps[j].action, payload.steps[j].params)],
               IF payload.hotkey # Null THEN HotkeyTrigger(payload.hotkey.keys)
               ELSE Null,
               IF payload.schedule # Null
               THEN ScheduleTrigger(payload.schedule.type, payload.schedule.expression)
               ELSE Null,
               payload.require_window_focus)

\* What json.load reads back of a value json.dump wrote: str, int, float,
\* bool, None and list come back as they were, a tuple comes back a list.
json_value(param) ==
    [param EXCEPT !.type = IF @ = "tuple" THEN "list" ELSE @]

json_item(item) ==
    [item EXCEPT !.steps = [j \in 1..Len(@) |->
        [@[j] EXCEPT !.params = [k \in 1..Len(@) |-> json_value(@[k])]]]]

\* No file at the path.
NoFlowsFile == [exists |-> FALSE, flows |-> <<>>]

\* storage.save_flows: the file afterwards.
save_flows(fs) ==
    [exists |-> TRUE, flows |-> [j \in 1..Len(fs) |-> json_item(to_dict(fs[j]))]]

\* storage.load_flows
load_flows(file) ==
    IF ~file.exists THEN <<>>
    ELSE [j \in 1..Len(file.flows) |-> from_dict(file.flows[j])]

-----------------------------------------------------------------------------
(* RunLogger *)

RunRecord(flow_id, trigger) ==
    [flow_id |-> flow_id, trigger |-> trigger, status |-> Running,
     finished |-> FALSE, step_logs |-> <<>>]

StepLog(index, action, params_summary) ==
    [index |-> index, action |-> action, params_summary |-> params_summary,
     finished |-> FALSE, status |-> None, error |-> None]

start_run(flow_id, trigger) == RunRecord(flow_id, trigger)

log_step_start(cur, index, action, params_summary) ==
    IF cur = NoRun THEN cur
    ELSE [cur EXCEPT !.step_logs = Append(@, StepLog(index, action, params_summary))]

\* The first StepLog with the index, 0 when there is none.
FindStepLog(logs, index) ==
    IF \E j \in 1..Len(logs) : logs[j].index = index
    THEN CHOOSE j \in 1..Len(logs) :
            /\ logs[j].index = index
            /\ \A h \in 1..(j - 1) : logs[h].index # index
    ELSE 0

\* A log_step_finish that adds a StepLog when none has the index.
log_step_finish_adds(cur, index, status, error) ==
    IF cur = NoRun THEN cur
    ELSE LET j == FindStepLog(cur.step_logs, index) IN
         IF j = 0
         THEN [cur EXCEPT !.step_logs =
                  Append(@, [StepLog(index, None, summary(Step(None, None))) EXCEPT
                                !.finished = TRUE, !.status = status, !.error = error])]
         ELSE [cur EXCEPT !.step_logs[j] =
                  [@ EXCEPT !.finished = TRUE, !.status = status, !.error = error]]

log_step_finish(cur, index, status, error) ==
    IF cur = NoRun THEN cur
    ELSE LET j == FindStepLog(cur.step_logs, index) IN
         IF j = 0 THEN cur
         ELSE [cur EXCEPT !.step_logs[j] =
                  [@ EXCEPT !.finished = TRUE, !.status = status, !.error = error]]

\* finish_run: the finalized record, or NoRun when no run is active.
finish_run_record(cur, status) ==
    IF cur = NoRun THEN NoRun
    ELSE [cur EXCEPT !.status = status, !.finished = TRUE]

\* An _export_run that opens the file in write mode.
export_run_truncates(log, record) == <<record>>

\* An _export_run that writes the line twice.
export_run_twice(log, record) == Append(Append(log, record), record)

\* _export_run: the file is opened in append mode and one line is written.
export_run(log, record) == Append(log, record)

-----------------------------------------------------------------------------
(* FlowRunner / RunnerThread *)

\* RunnerThread(flow, logger, trigger, ...): constructed, not started.
NewRunner(flow, trigger, close, chain) ==
    [flow |-> flow, trigger |-> trigger, close_browser_on_finish |-> close,
     pc |-> "created", index |-> 0, stop_requested |-> FALSE,
     status |-> Completed, exc |-> FALSE,
     signals |-> <<>>,         \* the signals emitted, in order
     outcomes |-> <<>>,        \* history: what each execute call did
     begun |-> 0,              \* history: the start_run calls run() has made
     stopAt |-> -1,            \* history: first step not begun at the first request_stop
     stopDuring |-> -1,        \* history: step executing at the first request_stop
     chain |-> chain,          \* history: the startup chain the run belongs to
     afterStop |-> FALSE]      \* history: started after its chain was asked to stop

\* QThread.isRunning(): started and run() has not returned.
isRunning(r) == r.pc \in {"begin", "loop", "exec", "final", "emitted"}

\* run() has returned or raised.
Ended(r) == r.pc \in {"done", "raised"}

NSteps(r) == Len(r.flow.steps)

\* request_stop as it would be if it ended the step in progress.
request_stop_preempts(r) ==
    [r EXCEPT
        !.stop_requested = TRUE,
        !.pc = IF r.pc = "exec" THEN "final" ELSE @,
        !.status = IF r.pc = "exec" THEN Stopped ELSE @,
        !.stopAt = IF r.stop_requested THEN @
                   ELSE IF r.pc \in {"created", "begin", "loop"} THEN r.index
                   ELSE IF r.pc = "exec" THEN r.index + 1
                   ELSE NSteps(r),
        !.stopDuring = IF r.stop_requested THEN @
                       ELSE IF r.pc = "exec" THEN r.index ELSE -1]

\* FlowRunner.request_stop
request_stop(r) ==
    [r EXCEPT
        !.stop_requested = TRUE,
        !.stopAt = IF r.stop_requested THEN @
                   ELSE IF r.pc \in {"created", "begin", "loop"} THEN r.index
                   ELSE IF r.pc = "exec" THEN r.index + 1
                   ELSE NSteps(r),
        !.stopDuring = IF r.stop_requested THEN @
                       ELSE IF r.pc = "exec" THEN r.index ELSE -1]

\* run(): the ActionContext is built and logger.start_run is called.
Begin(i) ==
    /\ runs[i].pc = "begin"
    /\ runs' = [runs EXCEPT ![i].pc = "loop", ![i].begun = @ + 1]
    /\ current_run' = start_run(runs[i].flow.flow_id, runs[i].trigger)
    /\ lastOp' = None
    /\ UNCHANGED <<triggerVars, returned, flowVars, dispatchVars, ui_events, log_file, driver>>

\* A loop head that never looks at the stop flag.
StopFlagIgnored(r) == FALSE

\* if self._stop_requested: the stop flag as the loop head reads it.
StopFlagSeen(r) == r.stop_requested

\* One loop head: the for statement, the stop check, create_action,
\* step_started.emit and log_step_start.
LoopHead(i) ==
    LET r == runs[i] IN
    /\ r.pc = "loop"
    /\ lastOp' = None
    /\ UNCHANGED <<triggerVars, returned, flowVars, dispatchVars, ui_events, log_file, driver>>
    /\ IF r.index >= NSteps(r) THEN
            /\ runs' = [runs EXCEPT ![i].pc = "final"]
            /\ UNCHANGED current_run
       ELSE IF StopFlagSeen(r) THEN
            /\ runs' = [runs EXCEPT ![i].pc = "final", ![i].status = Stopped]
            /\ UNCHANGED current_run
       ELSE LET step == r.flow.steps[r.index + 1] IN
            IF ~create_action(step) THEN
                \* the exception leaves the for loop and the try statement
                /\ runs' = [runs EXCEPT ![i].pc = "final", ![i].exc = TRUE]
                /\ UNCHANGED current_run
            ELSE
                /\ runs' = [runs EXCEPT
                        ![i].pc = "exec",
                        ![i].signals = Append(@, <<"step_started", r.index>>)]
                /\ current_run' = log_step_start(current_run, r.index, step.action, summary(step))

\* A success path that also sets the status the stop check sets.
AfterSuccessMarksStopped(r) ==
    [r EXCEPT !.pc = "loop", !.index = @ + 1, !.status = Stopped,
              !.outcomes = Append(@, "ok"),
              !.signals = Append(@, <<"step_finished", r.index, Success>>)]

\* The runner after step r.index's execute returned.
AfterSuccess(r) ==
    [r EXCEPT !.pc = "loop", !.index = @ + 1,
              !.outcomes = Append(@, "ok"),
              !.signals = Append(@, <<"step_finished", r.index, Success>>)]

\* An except clause without its break.
AfterFaultContinues(r) ==
    [r EXCEPT !.pc = "loop", !.index = @ + 1, !.status = Failed,
              !.outcomes = Append(@, "raise"),
              !.signals = Append(@, <<"step_finished", r.index, Failed>>)]

\* The runner after step r.index's execute raised: the except clause.
AfterFault(r) ==
    [r EXCEPT !.pc = "final", !.status = Failed,
              !.outcomes = Append(@, "raise"),
              !.signals = Append(@, <<"step_finished", r.index, Failed>>)]

\* action.execute(context) and the log_step_finish / step_finished.emit after it.
Execute(i) ==
    LET r == runs[i]
        step == r.flow.steps[r.index + 1]
    IN
    /\ r.pc = "exec"
    /\ lastOp' = None
    /\ UNCHANGED <<triggerVars, returned, flowVars, dispatchVars, ui_events, log_file>>
    /\ \E outcome \in ExecuteOutcomes(step, driver) :
        /\ driver' \in DriverAfter(step, driver, outcome)
        /\ IF outcome = "ok" THEN
                /\ runs' = [runs EXCEPT ![i] = AfterSuccess(r)]
                /\ current_run' = log_step_finish(current_run, r.index, Success, None)
           ELSE
                /\ runs' = [runs EXCEPT ![i] = AfterFault(r)]
                /\ current_run' =
                      log_step_finish(current_run, r.index, Failed, FaultMessage(step, driver))

\* The finally clause, then finish_run and run_finished.emit unless an
\* exception is propagating.
Final(i) ==
    LET r == runs[i]
        rec == finish_run_record(current_run, r.status)
    IN
    /\ r.pc = "final"
    /\ lastOp' = None
    /\ UNCHANGED <<triggerVars, returned, flowVars, dispatchVars>>
    /\ driver' = IF r.close_browser_on_finish THEN FALSE ELSE driver
    /\ IF r.exc THEN
            /\ runs' = [runs EXCEPT ![i].pc = "raised"]
            /\ UNCHANGED <<current_run, log_file, ui_events>>
       ELSE
            /\ runs' = [runs EXCEPT
                    ![i].pc = "emitted",
                    ![i].signals = Append(@, <<"run_finished", r.status>>)]
            /\ log_file' = IF rec = NoRun THEN log_file ELSE export_run(log_file, rec)
            /\ current_run' = NoRun
            /\ ui_events' = Append(ui_events, i)

\* run() returns: the thread finishes.
Return(i) ==
    /\ runs[i].pc = "emitted"
    /\ runs' = [runs EXCEPT ![i].pc = "done"]
    /\ lastOp' = None
    /\ UNCHANGED <<triggerVars, returned, flowVars, dispatchVars, ui_events, current_run, log_file, driver>>

\* FlowRunner.request_stop called by the owner of the runner.
RequestStop(i) ==
    /\ ~runs[i].stop_requested
    /\ runs' = [runs EXCEPT ![i] = request_stop(@)]
    /\ lastOp' = None
    /\ UNCHANGED <<triggerVars, returned, flowVars, dispatchVars, ui_events, current_run, log_file, driver>>

RunnerStep(i) == Begin(i) \/ LoopHead(i) \/ Execute(i) \/ Final(i) \/ Return(i)

ThreadNames == {"ui", "hotkey", "sched"}

NoFlow == Flow(0, <<>>, FALSE, FALSE)

\* A thread that is not inside a MainWindow call.
IdleCall == [pc |-> "idle", flow |-> NoFlow, trigger |-> None, rest |-> <<>>,
             ids |-> <<>>, chain |-> 0]

-----------------------------------------------------------------------------
(* HotkeyManager *)

\* str.lower() on the key tokens hotkeys are written with here.
lower(key) ==
    CASE key = "Ctrl" -> "ctrl"
      [] key = "Alt" -> "alt"
      [] key = "Esc" -> "esc"
      [] key = "S" -> "s"
      [] OTHER -> key

\* HotkeyManager._format_key
format_key(key) ==
    LET k == lower(key) IN
    IF k = "win" THEN "<cmd>"
    ELSE IF Len(k) > 1 THEN "<" \o k \o ">"
    ELSE k

\* "+".join(self._format_key(k) for k in binding.keys)
RECURSIVE pynput_keys(_)
pynput_keys(keys) ==
    IF keys = <<>> THEN ""
    ELSE IF Len(keys) = 1 THEN format_key(keys[1])
    ELSE format_key(keys[1]) \o "+" \o pynput_keys(Tail(keys))

HotkeyBinding(name, keys, callback) ==
    [name |-> name, keys |-> keys, callback |-> callback]

\* HotkeyManager._listener is None.
NoListener == [none |-> TRUE]

\* HotkeyManager(): no bindings, no listener. active counts the GlobalHotKeys
\* listeners started and not stopped, peak the most of them at any moment of
\* the last call, raised whether the last call raised ValueError.
HotkeyManager(active) ==
    [bindings |-> <<>>, listener |-> NoListener, active |-> active,
     peak |-> active, raised |-> FALSE]

\* A conflict check that finds none.
ConflictIgnored(m, keys) == FALSE

\* A conflict check that looks at the first binding only.
ConflictWithFirstOnly(m, keys) ==
    m.bindings # <<>> /\ m.bindings[1].keys = keys

\* A conflict check on the keys as a set, whatever their order.
ConflictOnSameKeySet(m, keys) ==
    \E j \in 1..Len(m.bindings) :
        {m.bindings[j].keys[h] : h \in 1..Len(m.bindings[j].keys)}
            = {keys[h] : h \in 1..Len(keys)}

\* HotkeyManager._is_conflict
is_conflict(m, keys) ==
    \E j \in 1..Len(m.bindings) : m.bindings[j].keys = keys

\* The hotkeys dict of _refresh_listener: hotkeys[pynput_keys] = callback for
\* each binding in turn, so the last binding with a key string has its entry.
HotkeysDict(bs) ==
    [s \in {pynput_keys(bs[j].keys) : j \in 1..Len(bs)} |->
        LET last == CHOOSE j \in 1..Len(bs) :
                        /\ pynput_keys(bs[j].keys) = s
                        /\ \A h \in (j + 1)..Len(bs) : pynput_keys(bs[h].keys) # s
        IN bs[last].callback]

\* HotkeyManager._refresh_listener
refresh_listener(m) ==
    LET stopped == IF m.listener # NoListener THEN m.active - 1 ELSE m.active IN
    IF m.bindings = <<>> THEN
        [m EXCEPT !.listener = NoListener, !.active = stopped, !.peak = m.active]
    ELSE
        [m EXCEPT !.listener = [hotkeys |-> HotkeysDict(m.bindings)],
                  !.active = stopped + 1,
                  !.peak = IF stopped + 1 > m.active THEN stopped + 1 ELSE m.active]

\* self._bindings[name] = binding: in place for a name the dict has, else last.
SetBinding(bs, b) ==
    IF \E j \in 1..Len(bs) : bs[j].name = b.name
    THEN [j \in 1..Len(bs) |-> IF bs[j].name = b.name THEN b ELSE bs[j]]
    ELSE Append(bs, b)

\* HotkeyManager.register_hotkey
register_hotkey(m, name, keys, callback) ==
    IF is_conflict(m, keys) THEN [m EXCEPT !.raised = TRUE, !.peak = m.active]
    ELSE refresh_listener(
            [m EXCEPT !.raised = FALSE,
                      !.bindings = SetBinding(@, HotkeyBinding(name, keys, callback))])

\* HotkeyManager.unregister_hotkey
unregister_hotkey(m, name) ==
    IF \E j \in 1..Len(m.bindings) : m.bindings[j].name = name
    THEN refresh_listener(
            [m EXCEPT !.raised = FALSE,
                      !.bindings = SelectSeq(@, LAMBDA b : b.name # name)])
    ELSE [m EXCEPT !.raised = FALSE, !.peak = m.active]

\* HotkeyManager.stop
hotkeys_stop(m) ==
    [m EXCEPT !.listener = NoListener,
              !.active = IF m.listener # NoListener THEN @ - 1 ELSE @,
              !.peak = m.active,
              !.bindings = <<>>,
              !.raised = FALSE]

\* The callback the listener invokes for a key list, None when it has none.
Invoked(lst, keys) ==
    IF lst = NoListener THEN None
    ELSE IF pynput_keys(keys) \in DOMAIN lst.hotkeys THEN lst.hotkeys[pynput_keys(keys)]
    ELSE None

\* The HotkeyManager the variables hold.
TheManager ==
    [bindings |-> bindings, listener |-> listener, active |-> active_listeners,
     peak |-> peak_listeners, raised |-> FALSE]

SetManager(m) ==
    /\ bindings' = m.bindings
    /\ listener' = m.listener
    /\ active_listeners' = m.active
    /\ peak_listeners' = m.peak

\* No HotkeyManager call made yet.
NoCall == [op |-> None, name |-> None, keys |-> <<>>, raised |-> FALSE]

-----------------------------------------------------------------------------
(* SchedulerManager *)

\* SchedulerManager(): the scheduler is started and holds no job.
SchedulerManager == [jobs |-> {}, store |-> <<>>, up |-> TRUE, raised |-> FALSE]

ScheduledJob(job_id, description) == [job_id |-> job_id, description |-> description]

\* job_id in self._jobs
HasJob(s, job_id) == \E j \in s.jobs : j.job_id = job_id

\* A schedule expression is held with what split() and int() make of it:
\* text, the string itself; days, the part before "@" of a weekly expression;
\* time, the numbers of "HH:MM" (one per part, -1 for a part int() rejects);
\* fields, the number of fields of a crontab.
Expression(text, days, time, fields) ==
    [text |-> text, days |-> days, time |-> time, fields |-> fields]

\* hour, minute = [int(part) for part in ...] and CronTrigger(hour=, minute=):
\* the unpacking needs two parts, CronTrigger an hour in 0..23 and a minute in
\* 0..59.
TimeParses(parts) ==
    /\ Len(parts) = 2
    /\ parts[1] \in 0..23
    /\ parts[2] \in 0..59

\* CronTrigger(...) and CronTrigger.from_crontab(...): the fields of the trigger.
CronTrigger(days, parts) ==
    [day_of_week |-> days, hour |-> parts[1], minute |-> parts[2], crontab |-> None]
from_crontab(text) ==
    [day_of_week |-> None, hour |-> -1, minute |-> -1, crontab |-> text]

\* BackgroundScheduler.add_job(callback, trigger=trigger, id=job_id,
\* replace_existing=True) on a running scheduler: a job with the id is
\* replaced where it stands, a new one is added at the end.
store_add_job(store, job) ==
    IF \E j \in 1..Len(store) : store[j].id = job.id
    THEN [j \in 1..Len(store) |-> IF store[j].id = job.id THEN job ELSE store[j]]
    ELSE Append(store, job)

\* BackgroundScheduler.remove_job(job_id): the store without the job.
store_remove_job(store, job_id) == SelectSeq(store, LAMBDA job : job.id # job_id)

\* A remove_job without its membership test: the scheduler is asked to remove
\* the job whatever _jobs holds, and raises JobLookupError when it has none.
remove_job_unguarded(s, job_id) ==
    IF \E j \in 1..Len(s.store) : s.store[j].id = job_id
    THEN [s EXCEPT !.store = store_remove_job(@, job_id),
                   !.jobs = {j \in @ : j.job_id # job_id}]
    ELSE [s EXCEPT !.raised = TRUE]

\* SchedulerManager.remove_job
remove_job(s, job_id) ==
    IF HasJob(s, job_id)
    THEN [s EXCEPT !.store = store_remove_job(@, job_id),
                   !.jobs = {j \in @ : j.job_id # job_id}]
    ELSE s

\* An _add_job that leaves a job already held under the id as it is.
add_job_keeps_old(s, job_id, trigger, callback, desc) ==
    IF HasJob(s, job_id) THEN s
    ELSE [s EXCEPT
            !.store = store_add_job(@, [id |-> job_id, callback |-> callback,
                                        trigger |-> trigger]),
            !.jobs = @ \cup {ScheduledJob(job_id, desc)}]

\* SchedulerManager._add_job
add_job(s, job_id, trigger, callback, desc) ==
    LET s1 == IF HasJob(s, job_id) THEN remove_job(s, job_id) ELSE s IN
    [s1 EXCEPT
        !.store = store_add_job(@, [id |-> job_id, callback |-> callback,
                                    trigger |-> trigger]),
        !.jobs = {j \in @ : j.job_id # job_id} \cup {ScheduledJob(job_id, desc)}]

\* schedule_daily: the expression is parsed before _add_job is reached, so a
\* malformed one raises with the manager as it was.
schedule_daily(s, job_id, time_expression, callback) ==
    IF ~TimeParses(time_expression.time) THEN [s EXCEPT !.raised = TRUE]
    ELSE add_job(s, job_id, CronTrigger("*", time_expression.time), callback,
                 "daily@" \o time_expression.text)

\* schedule_weekly: "days@HH:MM".
schedule_weekly(s, job_id, expression, callback) ==
    IF ~TimeParses(expression.time) THEN [s EXCEPT !.raised = TRUE]
    ELSE add_job(s, job_id, CronTrigger(expression.days, expression.time), callback,
                 "weekly@" \o expression.text)

\* schedule_cron: CronTrigger.from_crontab wants five fields.
schedule_cron(s, job_id, cron_expression, callback) ==
    IF cron_expression.fields # 5 THEN [s EXCEPT !.raised = TRUE]
    ELSE add_job(s, job_id, from_crontab(cron_expression.text), callback,
                 "cron@" \o cron_expression.text)

\* The call MainWindow makes for a ScheduleTrigger, by its schedule_type.
schedule_job(s, job_id, schedule, callback) ==
    IF schedule.schedule_type = "daily"
    THEN schedule_daily(s, job_id, schedule.expression, callback)
    ELSE IF schedule.schedule_type = "weekly"
    THEN schedule_weekly(s, job_id, schedule.expression, callback)
    ELSE IF schedule.schedule_type = "cron"
    THEN schedule_cron(s, job_id, schedule.expression, callback)
    ELSE s

\* SchedulerManager.shutdown
scheduler_shutdown(s) == [s EXCEPT !.up = FALSE, !.jobs = {}]

\* The SchedulerManager the variables hold.
TheScheduler ==
    [jobs |-> jobs, store |-> aps_jobs, up |-> scheduler_up, raised |-> FALSE]

\* No RunLogger or SchedulerManager call made yet.
NoReturn == [op |-> None]

-----------------------------------------------------------------------------
(* MainWindow: the settings and flows Spec runs with *)

\* AppSettings.close_browser_on_finish (its default).
close_browser_on_finish == TRUE

\* AppSettings.startup_triggers: the flow_ids of each StartupTriggerConfig.
startup_triggers == << <<2, 1>> >>

\* AppSettings.startup_schedule is set.
startup_schedule == TRUE

\* The flows file Spec starts with.
LoadedFlows ==
    << Flow(1, <<Step("wait", "ok")>>, TRUE, FALSE),
       Flow(2, <<Step("click", "ok")>>, FALSE, TRUE),
       Flow(3, <<Step("unknown_kind", "ok")>>, FALSE, FALSE) >>

\* DEFAULT_HOTKEY, and AppSettings.emergency_hotkey (its default: empty).
DEFAULT_HOTKEY == <<"ctrl", "alt", "esc">>
emergency_hotkey == <<>>

\* StartupTriggerConfig.hotkey of each startup trigger.
startup_hotkeys == << <<"win", "s">> >>

\* flow.hotkey.keys of a flow that has a hotkey trigger.
hotkey_keys(flow) == <<"ctrl", "alt", "s">>

\* _register_emergency_hotkey; a ValueError ends in the warning box.
register_emergency_hotkey(m) ==
    register_hotkey(unregister_hotkey(m, "emergency_stop"), "emergency_stop",
                    IF emergency_hotkey # <<>> THEN emergency_hotkey ELSE DEFAULT_HOTKEY,
                    "_stop_run")

\* The hotkey half of _register_flow_triggers, over the flows fs.
RECURSIVE register_flow_hotkeys(_, _)
register_flow_hotkeys(m, fs) ==
    IF fs = <<>> THEN m
    ELSE LET flow == Head(fs)
             name == "flow:" \o ToString(flow.flow_id)
         IN register_flow_hotkeys(
                IF flow.hotkey THEN register_hotkey(m, name, hotkey_keys(flow), name)
                ELSE m,
                Tail(fs))

\* The loop of _apply_startup_triggers over settings.startup_triggers, from
\* index k (1-based here) on.
RECURSIVE register_startup_hotkeys(_, _)
register_startup_hotkeys(m, k) ==
    IF k > Len(startup_hotkeys) THEN m
    ELSE LET name == "startup_trigger_" \o ToString(k - 1) IN
         register_startup_hotkeys(
            IF startup_hotkeys[k] # <<>>
            THEN register_hotkey(m, name, startup_hotkeys[k], name)
            ELSE m,
            k + 1)

\* The HotkeyManager after _apply_startup_triggers, from the manager m.
apply_startup_hotkeys(m, fs) ==
    register_startup_hotkeys(
        register_flow_hotkeys(
            register_emergency_hotkey(HotkeyManager(hotkeys_stop(m).active)), fs),
        1)

\* flow.schedule of a flow that has one, and AppSettings.startup_schedule.
flow_schedule(flow) ==
    [schedule_type |-> "daily", expression |-> Expression("08:30", "*", <<8, 30>>, 0)]
startup_schedule_trigger ==
    [schedule_type |-> "daily", expression |-> Expression("09:00", "*", <<9, 0>>, 0)]

\* The schedule half of _register_flow_triggers.
RECURSIVE register_flow_schedules(_, _)
register_flow_schedules(s, fs) ==
    IF fs = <<>> THEN s
    ELSE LET flow == Head(fs)
             name == "schedule:" \o ToString(flow.flow_id)
         IN register_flow_schedules(
                IF flow.schedule THEN schedule_job(s, name, flow_schedule(flow), name)
                ELSE s,
                Tail(fs))

\* The SchedulerManager after _apply_startup_triggers, from the manager s.
apply_startup_schedules(s, fs) ==
    LET s1 == remove_job(register_flow_schedules(s, fs), "startup_schedule") IN
    IF startup_schedule
    THEN schedule_job(s1, "startup_schedule", startup_schedule_trigger, "run_schedule_flows")
    ELSE s1

\* The SchedulerManager of a window just constructed.
apply_startup_jobs(fs) == apply_startup_schedules(SchedulerManager, fs)

\* The trigger state of a window whose startup triggers were applied.
TriggersApplied(fs) ==
    LET m == apply_startup_hotkeys(HotkeyManager(0), fs) IN
    /\ bindings = m.bindings
    /\ listener = m.listener
    /\ active_listeners = m.active
    /\ peak_listeners = m.peak
    /\ hk_last = NoCall
    /\ jobs = apply_startup_jobs(fs).jobs
    /\ aps_jobs = apply_startup_jobs(fs).store
    /\ scheduler_up = TRUE
    /\ closing = <<>>
    /\ escaped = {}
    /\ returned = NoReturn

\* [flow for flow in self._flows if flow.flow_id in flow_ids]
InSeq(x, seq) == \E j \in 1..Len(seq) : seq[j] = x
RECURSIVE SelectFlows(_, _)
SelectFlows(fs, flow_ids) ==
    IF fs = <<>> THEN <<>>
    ELSE IF InSeq(Head(fs).flow_id, flow_ids)
         THEN <<Head(fs)>> \o SelectFlows(Tail(fs), flow_ids)
         ELSE SelectFlows(Tail(fs), flow_ids)

\* self._runner_thread and self._runner_thread.isRunning()
Busy == runner_thread # 0 /\ isRunning(runs[runner_thread])

\* The bound on the runs of one behaviour: a request is taken up only while
\* one more RunnerThread fits under MaxRuns, counting those that threads
\* inside _run_flow are about to create.
AboutToCreate == {t \in ThreadNames : call[t].pc \in {"seq_set", "create"}}
Room == Len(runs) + Cardinality(AboutToCreate) < MaxRuns

-----------------------------------------------------------------------------
(* MainWindow._run_flow, step by step *)

\* A rejection that also asks the active run to stop.
RunFlowRejectedStops(t, trigger) ==
    /\ call' = [call EXCEPT ![t] = IdleCall]
    /\ runs' = [runs EXCEPT ![runner_thread] = request_stop(@)]
    /\ lastOp' = trigger

\* _run_flow finds a run active: the warning, then return.
RunFlowRejected(t, trigger) ==
    /\ call' = [call EXCEPT ![t] = IdleCall]
    /\ runs' = runs
    /\ lastOp' = trigger

\* _run_flow finds no run active and goes on to build the RunnerThread.
RunFlowAccepted(t, flow, trigger, chain) ==
    /\ call' = [call EXCEPT ![t] =
                  [IdleCall EXCEPT !.pc = "create", !.flow = flow,
                                   !.trigger = trigger, !.chain = chain]]
    /\ runs' = runs
    /\ lastOp' = None

\* The busy check that opens _run_flow.
run_flow(t, flow, trigger, chain) ==
    IF Busy THEN RunFlowRejected(t, trigger)
    ELSE RunFlowAccepted(t, flow, trigger, chain)

\* self._runner_thread = RunnerThread(...) and the three connect calls.
CreateRunner(t) ==
    LET c == call[t]
        new == Len(runs) + 1
    IN
    /\ c.pc = "create"
    /\ runs' = Append(runs, NewRunner(c.flow, c.trigger, close_browser_on_finish, c.chain))
    /\ runner_thread' = new
    /\ call' = [call EXCEPT ![t].pc = "start"]
    /\ chains' = IF c.chain = 0 THEN chains
                 ELSE [chains EXCEPT ![c.chain].runs = Append(@, new)]
    /\ lastOp' = None
    /\ UNCHANGED <<triggerVars, returned, flowVars, startup_queue, startup_trigger, ui_events, current_run,
                   log_file, driver, queue_chain, dropped>>

\* QThread.start(): starts a thread that is not running (also one whose run()
\* has ended, which runs again); no effect on a running one.
thread_start(r, afterStop) ==
    IF isRunning(r) THEN r
    ELSE [r EXCEPT !.pc = "begin", !.index = 0, !.status = Completed,
                   !.exc = FALSE,
                   !.afterStop = IF r.pc = "created" THEN afterStop ELSE @]

\* self._runner_thread.start(): the thread self._runner_thread names now.
StartRunner(t) ==
    LET c == call[t]
        target == runs[runner_thread]
    IN
    /\ c.pc = "start"
    /\ runs' = [runs EXCEPT ![runner_thread] =
                  thread_start(target,
                               target.chain # 0 /\ chains[target.chain].stopped)]
    /\ call' = [call EXCEPT ![t] = IdleCall]
    /\ lastOp' = None
    /\ UNCHANGED <<triggerVars, returned, flowVars, runner_thread, startup_queue, startup_trigger, ui_events,
                   current_run, log_file, driver, chains, queue_chain, dropped>>

-----------------------------------------------------------------------------
(* MainWindow._run_startup_flows / _run_flow_sequence *)

\* _run_flow_sequence's own busy check; flows is not empty.
run_flow_sequence(t, fl, flow_ids, trigger) ==
    IF Busy THEN RunFlowRejected(t, trigger)
    ELSE /\ call' = [call EXCEPT ![t] =
                       [IdleCall EXCEPT !.pc = "seq_set", !.flow = Head(fl),
                                        !.rest = Tail(fl), !.ids = flow_ids,
                                        !.trigger = trigger]]
         /\ runs' = runs
         /\ lastOp' = None

\* A thread enters _run_startup_flows (a startup hotkey) or run_schedule_flows
\* (the startup schedule) with the flow_ids of a StartupTriggerConfig.
RunStartupFlows(t, flow_ids, trigger) ==
    LET fl == SelectFlows(flows, flow_ids) IN
    /\ call[t].pc = "idle"
    /\ fl # <<>>
    /\ Room
    /\ run_flow_sequence(t, fl, flow_ids, trigger)
    /\ UNCHANGED <<triggerVars, returned, flowVars, runner_thread, startup_queue, startup_trigger, ui_events,
                   current_run, log_file, driver, chains, queue_chain, dropped>>

\* self._startup_trigger = trigger; self._startup_queue = flows[1:]; then
\* _run_flow(flows[0]) up to its busy check.
SequenceSet(t) ==
    LET c == call[t]
        new == Len(chains) + 1
    IN
    /\ c.pc = "seq_set"
    /\ startup_trigger' = c.trigger
    /\ startup_queue' = c.rest
    /\ chains' = Append(chains, [ids |-> c.ids, label |-> c.trigger,
                                 stopped |-> FALSE, runs |-> <<>>])
    /\ queue_chain' = new
    /\ IF Busy THEN RunFlowRejected(t, "sequence_head")
       ELSE RunFlowAccepted(t, c.flow, c.trigger, new)
    /\ UNCHANGED <<triggerVars, returned, flowVars, runner_thread, ui_events, current_run, log_file, driver,
                   dropped>>

-----------------------------------------------------------------------------
(* The callbacks and slots *)

\* _run_selected_flow: the Run button.
RunSelectedFlow(f) ==
    /\ call["ui"].pc = "idle"
    /\ Room
    /\ startup_queue' = <<>>
    /\ startup_trigger' = None
    /\ queue_chain' = 0
    /\ run_flow("ui", f, "manual", 0)
    /\ UNCHANGED <<triggerVars, returned, flowVars, runner_thread, ui_events, current_run, log_file, driver,
                   chains, dropped>>

\* The hotkey of a flow: lambda: self._run_flow(flow, trigger="hotkey").
HotkeyFlow(f) ==
    /\ call["hotkey"].pc = "idle"
    /\ f.hotkey
    /\ Room
    /\ run_flow("hotkey", f, "hotkey", 0)
    /\ UNCHANGED <<triggerVars, returned, flowVars, runner_thread, startup_queue, startup_trigger, ui_events,
                   current_run, log_file, driver, chains, queue_chain, dropped>>

\* The schedule of a flow: lambda: self._run_flow(flow, trigger="schedule").
ScheduleFlow(f) ==
    /\ call["sched"].pc = "idle"
    /\ f.schedule
    /\ Room
    /\ run_flow("sched", f, "schedule", 0)
    /\ UNCHANGED <<triggerVars, returned, flowVars, runner_thread, startup_queue, startup_trigger, ui_events,
                   current_run, log_file, driver, chains, queue_chain, dropped>>

\* A startup trigger's hotkey.
HotkeyStartup(k) == RunStartupFlows("hotkey", startup_triggers[k], "startup_hotkey")

\* The startup schedule: the flows of the first startup trigger.
ScheduleStartup ==
    /\ startup_schedule
    /\ startup_triggers # <<>>
    /\ RunStartupFlows("sched", startup_triggers[1], "startup_schedule")

\* The chain in progress (a flow of it has been started) when _stop_run is
\* called, marked as asked to stop.
ChainInProgress(c) ==
    /\ c # 0
    /\ \E j \in 1..Len(chains[c].runs) : runs[chains[c].runs[j]].pc # "created"

MarkStopped(ch, c) ==
    IF ChainInProgress(c) THEN [ch EXCEPT ![c].stopped = TRUE] ELSE ch

\* A _stop_run that does not ask whether the thread is running.
StopRunUnguarded(t) ==
    /\ call[t].pc = "idle"
    /\ chains' = MarkStopped(chains, queue_chain)
    /\ lastOp' = None
    /\ IF runner_thread # 0 THEN
            /\ runs' = [runs EXCEPT ![runner_thread] = request_stop(@)]
            /\ startup_queue' = <<>>
            /\ startup_trigger' = None
            /\ queue_chain' = 0
       ELSE UNCHANGED <<runs, startup_queue, startup_trigger, queue_chain>>
    /\ UNCHANGED <<triggerVars, returned, flowVars, runner_thread, call, ui_events, current_run,
                   log_file, driver, dropped>>

\* _stop_run: the Stop button and the floating window (t = "ui"), the
\* emergency hotkey (t = "hotkey").
StopRun(t) ==
    /\ call[t].pc = "idle"
    /\ chains' = MarkStopped(chains, queue_chain)
    /\ lastOp' = None
    /\ IF Busy THEN
            /\ runs' = [runs EXCEPT ![runner_thread] = request_stop(@)]
            /\ startup_queue' = <<>>
            /\ startup_trigger' = None
            /\ queue_chain' = 0
       ELSE UNCHANGED <<runs, startup_queue, startup_trigger, queue_chain>>
    /\ UNCHANGED <<triggerVars, returned, flowVars, runner_thread, call, ui_events, current_run, log_file,
                   driver, dropped>>

\* _on_run_finished: the slot of a queued run_finished signal.
OnRunFinished ==
    /\ call["ui"].pc = "idle"
    /\ ui_events # <<>>
    \* the bound: the slot is taken up only if the flow it would start fits
    /\ startup_queue = <<>> \/ Busy \/ Room
    /\ ui_events' = Tail(ui_events)
    /\ IF startup_queue # <<>> THEN
            /\ startup_queue' = Tail(startup_queue)
            /\ run_flow("ui", Head(startup_queue),
                        IF startup_trigger # None THEN startup_trigger ELSE "startup",
                        queue_chain)
            /\ dropped' = IF Busy THEN Append(dropped, Head(startup_queue).flow_id)
                          ELSE dropped
       ELSE /\ lastOp' = None
            /\ UNCHANGED <<runs, call, startup_queue, dropped>>
    /\ UNCHANGED <<triggerVars, returned, flowVars, runner_thread, startup_trigger, current_run, log_file,
                   driver, chains, queue_chain>>

-----------------------------------------------------------------------------
(* Spec: the dispatcher and its runner threads *)

\* The dispatcher of a window that has started no run.
InitDispatcher ==
    /\ flows = LoadedFlows
    /\ runs = <<>>
    /\ runner_thread = 0
    /\ startup_queue = <<>>
    /\ startup_trigger = None
    /\ call = [t \in ThreadNames |-> IdleCall]
    /\ ui_events = <<>>
    /\ current_run = NoRun
    /\ log_file = <<>>
    /\ flows_file = NoFlowsFile
    /\ driver = FALSE
    /\ chains = <<>>
    /\ queue_chain = 0
    /\ dropped = <<>>
    /\ lastOp = None

Init ==
    /\ InitDispatcher
    /\ TriggersApplied(LoadedFlows)

FlowSet == {flows[j] : j \in 1..Len(flows)}

Next ==
    \/ \E f \in FlowSet : RunSelectedFlow(f)
    \/ \E f \in FlowSet : HotkeyFlow(f)
    \/ \E f \in FlowSet : ScheduleFlow(f)
    \/ \E k \in 1..Len(startup_triggers) : HotkeyStartup(k)
    \/ ScheduleStartup
    \/ \E t \in {"ui", "hotkey"} : StopRun(t)
    \/ OnRunFinished
    \/ \E t \in ThreadNames : SequenceSet(t)
    \/ \E t \in ThreadNames : CreateRunner(t)
    \/ \E t \in ThreadNames : StartRunner(t)
    \/ \E i \in 1..Len(runs) : RunnerStep(i)

Spec == Init /\ [][Next]_vars

-----------------------------------------------------------------------------
(* SpecRunner: one FlowRunner.run *)

\* The steps SpecRunner draws flows from.
StepChoices ==
    {Step("wait", "ok"), Step("click", "ok"), Step("click", "bad"), Step("scroll", "ok"),
     Step("browser_open", "ok"), Step("browser_click", "ok"),
     Step("unknown_kind", "ok"),
     Step("type_text", "abc"), Step("browser_type", "hello")}

\* Text payloads, two of each length.
Texts == {"abc", "xyz", "hello", "world"}

RECURSIVE StepSeqs(_)
StepSeqs(n) ==
    IF n = 0 THEN {<<>>}
    ELSE LET shorter == StepSeqs(n - 1) IN
         shorter \cup {Append(s, x) : s \in {t \in shorter : Len(t) = n - 1},
                                     x \in StepChoices}

InitRunner ==
    /\ \E steps \in StepSeqs(MaxSteps), close \in BOOLEAN :
        /\ flows = <<Flow(1, steps, FALSE, FALSE)>>
        /\ runs = <<[NewRunner(Flow(1, steps, FALSE, FALSE), "manual", close, 0)
                        EXCEPT !.pc = "begin"]>>
    /\ runner_thread = 1
    /\ startup_queue = <<>>
    /\ startup_trigger = None
    /\ call = [t \in ThreadNames |-> IdleCall]
    /\ ui_events = <<>>
    /\ current_run = NoRun
    /\ log_file = <<>>
    /\ flows_file = NoFlowsFile
    /\ driver = FALSE
    /\ chains = <<>>
    /\ queue_chain = 0
    /\ dropped = <<>>
    /\ lastOp = None
    /\ TriggersApplied(flows)

NextRunner == RunnerStep(1) \/ RequestStop(1)

SpecRunner == InitRunner /\ [][NextRunner]_vars

-----------------------------------------------------------------------------
(* SpecHotkeys: the calls of HotkeyManager on a manager just constructed *)

runVars == <<flowVars, runs, runner_thread, startup_queue, startup_trigger, call,
             ui_events, current_run, log_file, driver, chains, queue_chain,
             dropped, lastOp>>

\* The names MainWindow registers bindings under.
HotkeyNames == {"emergency_stop", "flow:1", "startup_trigger_0"}

\* The key lists SpecHotkeys registers.
KeyLists ==
    {<<"ctrl", "s">>, <<"Ctrl", "S">>, <<"ctrl", "alt", "s">>, <<"alt", "ctrl", "s">>,
     <<"win", "s">>, <<"cmd", "s">>, <<"ctrl", "alt", "esc">>}

\* The callback MainWindow passes with a name: self._stop_run, or the lambda
\* made for that flow or startup trigger.
Callback(name) == IF name = "emergency_stop" THEN "_stop_run" ELSE name

RegisterHotkey(name, keys) ==
    LET m == register_hotkey(TheManager, name, keys, Callback(name)) IN
    /\ SetManager(m)
    /\ hk_last' = [op |-> "register", name |-> name, keys |-> keys, raised |-> m.raised]
    /\ UNCHANGED <<runVars, schedVars, closing, escaped, returned>>

UnregisterHotkey(name) ==
    LET m == unregister_hotkey(TheManager, name) IN
    /\ SetManager(m)
    /\ hk_last' = [op |-> "unregister", name |-> name, keys |-> <<>>, raised |-> m.raised]
    /\ UNCHANGED <<runVars, schedVars, closing, escaped, returned>>

StopHotkeys ==
    LET m == hotkeys_stop(TheManager) IN
    /\ SetManager(m)
    /\ hk_last' = [op |-> "stop", name |-> None, keys |-> <<>>, raised |-> m.raised]
    /\ UNCHANGED <<runVars, schedVars, closing, escaped, returned>>

\* MainWindow.__init__ up to self._hotkeys = HotkeyManager() and
\* self._scheduler = SchedulerManager().
InitHotkeys ==
    /\ InitDispatcher
    /\ bindings = <<>>
    /\ listener = NoListener
    /\ active_listeners = 0
    /\ peak_listeners = 0
    /\ hk_last = NoCall
    /\ jobs = {}
    /\ aps_jobs = <<>>
    /\ scheduler_up = TRUE
    /\ closing = <<>>
    /\ escaped = {}
    /\ returned = NoReturn

NextHotkeys ==
    \/ \E name \in HotkeyNames, keys \in KeyLists : RegisterHotkey(name, keys)
    \/ \E name \in HotkeyNames : UnregisterHotkey(name)
    \/ StopHotkeys

SpecHotkeys == InitHotkeys /\ [][NextHotkeys]_vars

-----------------------------------------------------------------------------
(* SpecShutdown: MainWindow.shutdown during one FlowRunner.run *)

\* MainWindow.shutdown up to the return of its last statement, or to the
\* start of self._runner_thread.wait(2000) when a run is active.
Shutdown ==
    LET m == hotkeys_stop(TheManager) IN
    /\ call["ui"].pc = "idle"
    /\ closing = <<>>
    /\ SetManager(m)
    /\ hk_last' = [op |-> "stop", name |-> None, keys |-> <<>>, raised |-> FALSE]
    /\ scheduler_up' = FALSE
    /\ jobs' = scheduler_shutdown(TheScheduler).jobs
    /\ aps_jobs' = scheduler_shutdown(TheScheduler).store
    /\ driver' = FALSE
    /\ lastOp' = None
    /\ IF Busy THEN
            /\ runs' = [runs EXCEPT ![runner_thread] = request_stop(@)]
            /\ call' = [call EXCEPT !["ui"].pc = "wait"]
            /\ closing' = <<"hotkeys.stop", "scheduler.shutdown", "browser.shutdown",
                            "request_stop", "wait">>
       ELSE /\ closing' = <<"hotkeys.stop", "scheduler.shutdown", "browser.shutdown">>
            /\ UNCHANGED <<runs, call>>
    /\ UNCHANGED <<flowVars, runner_thread, startup_queue, startup_trigger, ui_events,
                   current_run, log_file, chains, queue_chain, dropped, escaped,
                   returned>>

\* wait(2000) returns: the thread has finished, or the two seconds are over.
ShutdownWaited ==
    /\ call["ui"].pc = "wait"
    /\ call' = [call EXCEPT !["ui"] = IdleCall]
    /\ closing' = Append(closing, "waited")
    /\ lastOp' = None
    /\ UNCHANGED <<flowVars, runs, runner_thread, startup_queue, startup_trigger,
                   ui_events, current_run, log_file, driver, chains, queue_chain,
                   dropped, hotkeyVars, schedVars, escaped, returned>>

NextShutdown == RunnerStep(1) \/ Shutdown \/ ShutdownWaited

SpecShutdown == InitRunner /\ [][NextShutdown]_vars

-----------------------------------------------------------------------------
(* SpecCallbacks: the hotkey listener and scheduler threads in their callbacks *)

\* The call thread t is inside raises at its next statement. The lambdas and
\* run_schedule_flows have no try statement, so the exception leaves the
\* callback for the loop that called it. One exception per thread is followed.
CallbackRaises(t) ==
    /\ call[t].pc # "idle"
    /\ t \notin escaped
    /\ call' = [call EXCEPT ![t] = IdleCall]
    /\ escaped' = escaped \cup {t}
    /\ lastOp' = None
    /\ UNCHANGED <<flowVars, runs, runner_thread, startup_queue, startup_trigger,
                   ui_events, current_run, log_file, driver, chains, queue_chain,
                   dropped, hotkeyVars, schedVars, closing, returned>>

NextCallbacks ==
    \/ \E f \in FlowSet : HotkeyFlow(f)
    \/ \E f \in FlowSet : ScheduleFlow(f)
    \/ \E k \in 1..Len(startup_triggers) : HotkeyStartup(k)
    \/ ScheduleStartup
    \/ \E t \in {"hotkey", "sched"} : SequenceSet(t)
    \/ \E t \in {"hotkey", "sched"} : CreateRunner(t)
    \/ \E t \in {"hotkey", "sched"} : StartRunner(t)
    \/ \E t \in {"hotkey", "sched"} : CallbackRaises(t)
    \/ \E i \in 1..Len(runs) : RunnerStep(i)

SpecCallbacks == Init /\ [][NextCallbacks]_vars

-----------------------------------------------------------------------------
(* SpecLogger: the calls of RunLogger on a logger just constructed *)

\* What the calls are made with.
LogIndices == 0..(MaxLogSteps - 1)
LogStatuses == {Success, Failed}
FinishStatuses == {Completed, Failed}

loggerFrame == <<triggerVars, flowVars, runs, dispatchVars, ui_events, driver, lastOp>>

\* start_run returns the record it made the current one.
LoggerStartRun(flow_id) ==
    /\ current_run' = start_run(flow_id, "manual")
    /\ returned' = [op |-> "start_run", index |-> -1, status |-> None,
                    value |-> start_run(flow_id, "manual"),
                    replaced |-> current_run # NoRun]
    /\ UNCHANGED <<log_file, loggerFrame>>

\* log_step_start returns None (NoRun stands for it).
LoggerStepStart(index, action) ==
    /\ current_run # NoRun => Len(current_run.step_logs) < MaxLogSteps
    /\ current_run' = log_step_start(current_run, index, action, summary(Step(action, "ok")))
    /\ returned' = [op |-> "log_step_start", index |-> index, status |-> None,
                    value |-> NoRun]
    /\ UNCHANGED <<log_file, loggerFrame>>

\* log_step_finish returns None.
LoggerStepFinish(index, status) ==
    /\ current_run' = log_step_finish(current_run, index, status,
                                      IF status = Failed THEN "fault" ELSE None)
    /\ returned' = [op |-> "log_step_finish", index |-> index, status |-> status,
                    value |-> NoRun]
    /\ UNCHANGED <<log_file, loggerFrame>>

\* finish_run returns the finalized record, or None with no run active.
LoggerFinishRun(status) ==
    LET rec == finish_run_record(current_run, status) IN
    /\ current_run # NoRun => Len(log_file) < MaxLogLines
    /\ log_file' = IF rec = NoRun THEN log_file ELSE export_run(log_file, rec)
    /\ current_run' = NoRun
    /\ returned' = [op |-> "finish_run", index |-> -1, status |-> status,
                    value |-> rec]
    /\ UNCHANGED loggerFrame

\* MainWindow.__init__ up to self._logger = RunLogger(...): no record, and the
\* run log as the model starts it, empty.
InitLogger == InitHotkeys

NextLogger ==
    \/ LoggerStartRun(1)
    \/ \E index \in LogIndices : LoggerStepStart(index, "wait")
    \/ \E index \in LogIndices, status \in LogStatuses : LoggerStepFinish(index, status)
    \/ \E status \in FinishStatuses : LoggerFinishRun(status)

SpecLogger == InitLogger /\ [][NextLogger]_vars

-----------------------------------------------------------------------------
(* SpecScheduler: the calls of SchedulerManager on a manager just constructed *)

\* What the calls are made with.
JobIds == {"schedule:1", "startup_schedule"}
JobCallbacks == {"run_flow", "run_schedule_flows"}
DailyExpressions ==
    {Expression("08:30", "*", <<8, 30>>, 0), Expression("09:00", "*", <<9, 0>>, 0),
     Expression("25:00", "*", <<25, 0>>, 0), Expression("0830", "*", <<830>>, 0)}
WeeklyExpressions ==
    {Expression("mon@08:30", "mon", <<8, 30>>, 0),
     Expression("mon@8h", "mon", <<-1>>, 0)}
CronExpressions ==
    {Expression("0 9 * * *", "*", <<>>, 5), Expression("0 9", "*", <<>>, 2)}

SetScheduler(s) ==
    /\ jobs' = s.jobs
    /\ aps_jobs' = s.store
    /\ scheduler_up' = s.up
    /\ UNCHANGED <<runVars, hotkeyVars, closing, escaped>>

\* The expression recorded for a call that takes none.
NoExpression == Expression(None, None, <<>>, 0)

\* The call as returned records it: existed says whether the id was held.
SchedulerCall(op, job_id, expression, callback, s) ==
    [op |-> op, job_id |-> job_id, expression |-> expression,
     callback |-> callback, existed |-> HasJob(TheScheduler, job_id),
     raised |-> s.raised]

ScheduleDaily(job_id, expression, callback) ==
    LET s == schedule_daily(TheScheduler, job_id, expression, callback) IN
    /\ scheduler_up
    /\ SetScheduler(s)
    /\ returned' = SchedulerCall("schedule_daily", job_id, expression, callback, s)

ScheduleWeekly(job_id, expression, callback) ==
    LET s == schedule_weekly(TheScheduler, job_id, expression, callback) IN
    /\ scheduler_up
    /\ SetScheduler(s)
    /\ returned' = SchedulerCall("schedule_weekly", job_id, expression, callback, s)

ScheduleCron(job_id, expression, callback) ==
    LET s == schedule_cron(TheScheduler, job_id, expression, callback) IN
    /\ scheduler_up
    /\ SetScheduler(s)
    /\ returned' = SchedulerCall("schedule_cron", job_id, expression, callback, s)

RemoveJob(job_id) ==
    LET s == remove_job(TheScheduler, job_id) IN
    /\ SetScheduler(s)
    /\ returned' = SchedulerCall("remove_job", job_id, NoExpression, None, s)

\* SchedulerManager.shutdown, which MainWindow calls once on a manager.
SchedulerShutdown ==
    LET s == scheduler_shutdown(TheScheduler) IN
    /\ scheduler_up
    /\ SetScheduler(s)
    /\ returned' = SchedulerCall("shutdown", None, NoExpression, None, s)

\* MainWindow.__init__ up to self._scheduler = SchedulerManager().
InitScheduler == InitHotkeys

NextScheduler ==
    \/ \E job_id \in JobIds, e \in DailyExpressions, cb \in JobCallbacks :
            ScheduleDaily(job_id, e, cb)
    \/ \E job_id \in JobIds, e \in WeeklyExpressions, cb \in JobCallbacks :
            ScheduleWeekly(job_id, e, cb)
    \/ \E job_id \in JobIds, e \in CronExpressions, cb \in JobCallbacks :
            ScheduleCron(job_id, e, cb)
    \/ \E job_id \in JobIds : RemoveJob(job_id)
    \/ SchedulerShutdown

SpecScheduler == InitScheduler /\ [][NextScheduler]_vars

-----------------------------------------------------------------------------
(* SpecTriggers: _apply_startup_triggers and _load_flows_from_path on the
   window, with the hotkeys the flows file and the settings file can carry *)

\* Key lists a flow's hotkey trigger or a startup trigger can carry.
TriggerKeyLists == KeyLists \cup {<<"Ctrl", "Alt", "Esc">>}

\* The flow lists a flows file can hold.
FlowFiles ==
    {<<>>, LoadedFlows, <<Flow(1, <<Step("wait", "ok")>>, TRUE, TRUE)>>}

\* The hotkey half of _register_flow_triggers when the hotkey triggers of
\* the flows carry the key list keys.
RECURSIVE register_flow_triggers(_, _, _)
register_flow_triggers(m, fs, keys) ==
    IF fs = <<>> THEN m
    ELSE LET flow == Head(fs)
             name == "flow:" \o ToString(flow.flow_id)
         IN register_flow_triggers(
                IF flow.hotkey THEN register_hotkey(m, name, keys, name) ELSE m,
                Tail(fs), keys)

\* The loop of _apply_startup_triggers over startup triggers whose hotkeys
\* are hks, from index k (1-based here) on; a ValueError is passed over.
RECURSIVE register_startup_triggers(_, _, _)
register_startup_triggers(m, hks, k) ==
    IF k > Len(hks) THEN m
    ELSE LET name == "startup_trigger_" \o ToString(k - 1) IN
         register_startup_triggers(
            IF hks[k] # <<>> THEN register_hotkey(m, name, hks[k], name) ELSE m,
            hks, k + 1)

\* The HotkeyManager after _apply_startup_triggers, from the manager m.
apply_startup_triggers(m, fs, keys, hks) ==
    register_startup_triggers(
        register_flow_triggers(
            register_emergency_hotkey(HotkeyManager(hotkeys_stop(m).active)), fs, keys),
        hks, 1)

\* A loading that registers the triggers of the flows it has loaded.
load_flows_registers(m, fs) ==
    register_flow_hotkeys(register_emergency_hotkey(HotkeyManager(hotkeys_stop(m).active)), fs)

\* The HotkeyManager after _load_flows_from_path, from the manager m: stop,
\* a new HotkeyManager, _register_emergency_hotkey.
load_flows_from_path(m, fs) ==
    register_emergency_hotkey(HotkeyManager(hotkeys_stop(m).active))

triggerFrame == <<flows_file, runs, dispatchVars, ui_events, current_run, log_file,
                  driver, lastOp, closing, escaped, returned>>

\* _apply_startup_triggers, as __init__ and the settings buttons call it.
ApplyStartupTriggers(keys, hk) ==
    LET m == apply_startup_triggers(TheManager, flows, keys, <<hk>>)
        s == apply_startup_schedules(TheScheduler, flows)
    IN
    /\ scheduler_up
    /\ SetManager(m)
    /\ hk_last' = [op |-> "apply_startup_triggers", name |-> None, keys |-> <<>>,
                   raised |-> FALSE]
    /\ jobs' = s.jobs
    /\ aps_jobs' = s.store
    /\ UNCHANGED <<flows, scheduler_up, triggerFrame>>

\* _load_flows_from_path: both managers are stopped and replaced, the
\* emergency hotkey is registered and the flows of the file become the list.
LoadFlowsFromPath(fs) ==
    LET m == load_flows_from_path(TheManager, fs) IN
    /\ SetManager(m)
    /\ hk_last' = [op |-> "load_flows_from_path", name |-> None, keys |-> <<>>,
                   raised |-> FALSE]
    /\ jobs' = SchedulerManager.jobs
    /\ aps_jobs' = SchedulerManager.store
    /\ scheduler_up' = SchedulerManager.up
    /\ flows' = fs
    /\ UNCHANGED triggerFrame

\* MainWindow.__init__ up to self._scheduler = SchedulerManager(): no flows.
InitTriggers ==
    /\ flows = <<>>
    /\ flows_file = NoFlowsFile
    /\ runs = <<>>
    /\ runner_thread = 0
    /\ startup_queue = <<>>
    /\ startup_trigger = None
    /\ call = [t \in ThreadNames |-> IdleCall]
    /\ ui_events = <<>>
    /\ current_run = NoRun
    /\ log_file = <<>>
    /\ driver = FALSE
    /\ chains = <<>>
    /\ queue_chain = 0
    /\ dropped = <<>>
    /\ lastOp = None
    /\ bindings = <<>>
    /\ listener = NoListener
    /\ active_listeners = 0
    /\ peak_listeners = 0
    /\ hk_last = NoCall
    /\ jobs = {}
    /\ aps_jobs = <<>>
    /\ scheduler_up = TRUE
    /\ closing = <<>>
    /\ escaped = {}
    /\ returned = NoReturn

NextTriggers ==
    \/ \E keys \in TriggerKeyLists, hk \in TriggerKeyLists \cup {<<>>} :
            ApplyStartupTriggers(keys, hk)
    \/ \E fs \in FlowFiles : LoadFlowsFromPath(fs)

SpecTriggers == InitTriggers /\ [][NextTriggers]_vars

-----------------------------------------------------------------------------
(* SpecStorage: save_flows and load_flows on the flows of the editor *)

MaxFlows == 2        \* most flows in the list

\* Steps as StepEditorDialog.build_step makes them.
StoredSteps ==
    { StoredStep("type_text", <<Param("text", "str", "hello"), Param("interval_ms", "int", "20")>>),
      StoredStep("hotkey", <<Param("keys", "list", "ctrl,s")>>),
      StoredStep("browser_close", <<>>) }

StoredStepSeqs == {<<>>} \cup {<<a>> : a \in StoredSteps}
                    \cup {<<a, b>> : a \in StoredSteps, b \in StoredSteps}

\* Flows a flows file can hold.
StoredFlows ==
    { StoredFlow(id, "flow", steps, hotkey, schedule, focus) :
        id \in {"f1"}, steps \in StoredStepSeqs,
        hotkey \in {Null, HotkeyTrigger(<<>>), HotkeyTrigger(<<"ctrl", "alt", "s">>)},
        schedule \in {Null, ScheduleTrigger("daily", "09:00"), ScheduleTrigger("cron", "")},
        focus \in BOOLEAN }

storageFrame == <<runs, dispatchVars, ui_events, current_run, log_file, driver,
                  lastOp, triggerVars>>

\* MainWindow._save_flows: save_flows(path, self._flows)
SaveFlows ==
    /\ flows_file' = save_flows(flows)
    /\ returned' = [op |-> "save_flows"]
    /\ UNCHANGED <<flows, storageFrame>>

\* self._flows = load_flows(path)
LoadFlows ==
    /\ flows' = load_flows(flows_file)
    /\ returned' = [op |-> "load_flows"]
    /\ UNCHANGED <<flows_file, storageFrame>>

\* MainWindow._create_flow: a new flow with no steps and no triggers.
CreateFlow(id, name) ==
    /\ Len(flows) < MaxFlows
    /\ flows' = Append(flows, StoredFlow(id, name, <<>>, Null, Null, FALSE))
    /\ returned' = [op |-> "create_flow"]
    /\ UNCHANGED <<flows_file, storageFrame>>

\* MainWindow._delete_flow
DeleteFlow(j) ==
    /\ j \in 1..Len(flows)
    /\ flows' = [k \in 1..(Len(flows) - 1) |-> IF k < j THEN flows[k] ELSE flows[k + 1]]
    /\ returned' = [op |-> "delete_flow"]
    /\ UNCHANGED <<flows_file, storageFrame>>

\* The flows list after load_flows read a file holding one flow, or none.
InitStorage ==
    /\ runs = <<>>
    /\ runner_thread = 0
    /\ startup_queue = <<>>
    /\ startup_trigger = None
    /\ call = [t \in ThreadNames |-> IdleCall]
    /\ ui_events = <<>>
    /\ current_run = NoRun
    /\ log_file = <<>>
    /\ driver = FALSE
    /\ chains = <<>>
    /\ queue_chain = 0
    /\ dropped = <<>>
    /\ lastOp = None
    /\ bindings = <<>>
    /\ listener = NoListener
    /\ active_listeners = 0
    /\ peak_listeners = 0
    /\ hk_last = NoCall
    /\ jobs = {}
    /\ aps_jobs = <<>>
    /\ scheduler_up = TRUE
    /\ closing = <<>>
    /\ escaped = {}
    /\ returned = NoReturn
    /\ \E fs \in {<<>>} \cup {<<f>> : f \in StoredFlows} :
        /\ flows = fs
        /\ flows_file = save_flows(fs)

NextStorage ==
    \/ SaveFlows
    \/ LoadFlows
    \/ \E name \in {"new"} : CreateFlow("f2", name)
    \/ \E j \in 1..MaxFlows : DeleteFlow(j)

SpecStorage == InitStorage /\ [][NextStorage]_vars

-----------------------------------------------------------------------------
(* Properties *)

RunIds == 1..Len(runs)

\* The signals of a kind a runner has emitted.
Emitted(r, kind) == {j \in 1..Len(r.signals) : r.signals[j][1] = kind}

\* Steps constructed and announced (step_started), and execute calls made.
NStarted(r) == Cardinality(Emitted(r, "step_started"))
NExecuted(r) == Len(r.outcomes)

\* The 1-indexed step whose execute raised first, 0 when none did.
FirstFault(r) ==
    IF \E k \in 1..Len(r.outcomes) : r.outcomes[k] = "raise"
    THEN CHOOSE k \in 1..Len(r.outcomes) :
            /\ r.outcomes[k] = "raise"
            /\ \A h \in 1..(k - 1) : r.outcomes[h] = "ok"
    ELSE 0

\* StepLogs with a finish entry.
FinishedLogs(rec) == {j \in 1..Len(rec.step_logs) : rec.step_logs[j].finished}

\* The runner emitted run_finished exactly once, with the status.
EmittedRunFinished(r, status) ==
    /\ Cardinality(Emitted(r, "run_finished")) = 1
    /\ \A j \in Emitted(r, "run_finished") : r.signals[j][2] = status

IsPrefix(s, t) == Len(s) <= Len(t) /\ \A j \in 1..Len(s) : s[j] = t[j]

C2_FailFast ==
    \A i \in RunIds :
        LET r == runs[i]
            k == FirstFault(r)
        IN (Ended(r) /\ k > 0) =>
            /\ r.status = Failed
            /\ EmittedRunFinished(r, Failed)
            /\ NStarted(r) = k
            /\ NExecuted(r) = k
            /\ Len(log_file) = 1
            /\ log_file[1].status = Failed
            /\ Len(log_file[1].step_logs) = k
            /\ \A j \in 1..k :
                LET e == log_file[1].step_logs[j] IN
                /\ e.index = j - 1
                /\ e.action = r.flow.steps[j].action
                /\ e.finished
                /\ e.status = IF j < k THEN Success ELSE Failed
                /\ IF j < k THEN e.error = None
                   ELSE e.error \in {FaultMessage(r.flow.steps[k], d) : d \in BOOLEAN}

\* C2 witness: an ended run whose first fault is at a step that has a successor.
C2_Witness ==
    \E i \in RunIds :
        /\ Ended(runs[i])
        /\ FirstFault(runs[i]) = 2
        /\ FirstFault(runs[i]) < NSteps(runs[i])
        /\ Len(log_file) = 1

\* C3: when create_action raises for a step, the run ends with status Failed,
\* its RunRecord is persisted by finish_run and run_finished is emitted.
C3_UnsupportedStepFailsRun ==
    \A i \in RunIds :
        LET r == runs[i] IN
        (Ended(r) /\ r.exc) =>
            /\ r.status = Failed
            /\ EmittedRunFinished(r, Failed)
            /\ Len(log_file) = 1
            /\ log_file[1].status = Failed

\* C4: every run that has ended reached one terminal status, persisted
\* exactly one RunRecord and emitted run_finished exactly once with it.
C4_RunAlwaysFinalized ==
    \A i \in RunIds :
        LET r == runs[i] IN
        Ended(r) =>
            /\ r.status \in {Completed, Failed, Stopped}
            /\ EmittedRunFinished(r, r.status)
            /\ Len(log_file) = 1
            /\ log_file[1].status = r.status

\* The case of C5: stop was requested before step stopAt + 1 (1-indexed) of
\* the flow began, and the run has ended.
StoppedBeforeAStep(r) == Ended(r) /\ r.stopAt >= 0 /\ r.stopAt < NSteps(r)

\* No step from stopAt + 1 on was constructed, executed or logged, and fewer
\* than N steps are logged as finished.
NoStepFromStopOn(r) ==
    /\ NStarted(r) <= r.stopAt
    /\ NExecuted(r) <= r.stopAt
    /\ Len(log_file) = 1
    /\ Len(log_file[1].step_logs) <= r.stopAt
    /\ Cardinality(FinishedLogs(log_file[1])) < NSteps(r)

\* The step that was executing when stop was requested then raised.
StepInFlightFailed(r) ==
    /\ r.stopDuring >= 0
    /\ Len(r.outcomes) > r.stopDuring
    /\ r.outcomes[r.stopDuring + 1] = "raise"

\* C5 as stated: stop requested before step k begins gives status Stopped,
\* fewer than N steps logged as finished and no step from k on constructed,
\* executed or logged.
C5_StopBeforeStepStops ==
    \A i \in RunIds :
        LET r == runs[i] IN
        StoppedBeforeAStep(r) =>
            /\ r.status = Stopped
            /\ log_file[1].status = Stopped
            /\ NoStepFromStopOn(r)

\* C5 amended: stop requested before step k begins gives no step from k on
\* constructed, executed or logged and fewer than N steps logged as finished;
\* the status is Stopped, or Failed when the step that was executing at the
\* moment of the request raises.
C5_StopBeforeStepStopsOrFails ==
    \A i \in RunIds :
        LET r == runs[i]
            status == IF StepInFlightFailed(r) THEN Failed ELSE Stopped
        IN StoppedBeforeAStep(r) =>
            /\ r.status = status
            /\ NoStepFromStopOn(r)
            /\ log_file[1].status = status
            /\ EmittedRunFinished(r, status)

\* C5 witness: a run stopped at a step boundary with steps left.
C5_Witness ==
    \E i \in RunIds :
        /\ StoppedBeforeAStep(runs[i])
        /\ runs[i].stopAt = 1
        /\ runs[i].status = Stopped

\* C6: a stop requested while step i executes does not interrupt it: the step
\* gets its own outcome and a finished StepLog with it, and step i+1 is never
\* started.
C6_StopOnlyAtStepBoundary ==
    \A i \in RunIds :
        LET r == runs[i]
            s == r.stopDuring
        IN s >= 0 =>
            /\ NStarted(r) = s + 1
            /\ (r.pc = "exec" /\ r.index = s /\ NExecuted(r) = s)
                  \/ (r.pc # "exec" /\ NExecuted(r) = s + 1)
            /\ Ended(r) =>
                /\ Len(log_file) = 1
                /\ Len(log_file[1].step_logs) = s + 1
                /\ log_file[1].step_logs[s + 1].index = s
                /\ log_file[1].step_logs[s + 1].finished
                /\ log_file[1].step_logs[s + 1].status =
                      IF r.outcomes[s + 1] = "ok" THEN Success ELSE Failed

\* C6 witness: a stop arrived during the first of two steps, which then
\* succeeded, and the run has ended.
C6_Witness ==
    \E i \in RunIds :
        /\ Ended(runs[i])
        /\ runs[i].stopDuring = 0
        /\ NSteps(runs[i]) = 2
        /\ runs[i].outcomes = <<"ok">>

\* C7: a run request that arrives while a run is active starts nothing, queues
\* nothing and leaves every runner (its position, steps done, stop flag and
\* status) as it was.
C7_RejectedRequestChangesNoRun ==
    [][lastOp' \notin {None, "sequence_head"} =>
          /\ runs' = runs
          /\ runner_thread' = runner_thread
          /\ Len(startup_queue') <= Len(startup_queue)
          /\ \A t \in ThreadNames : call'[t].pc # "idle" => call'[t] = call[t]]_vars

\* C7 witness: a request has just been rejected while a run is active.
C7_Witness ==
    /\ lastOp = "hotkey"
    /\ Busy
    /\ runs[runner_thread].pc = "exec"

\* The runs of a chain that were started, in creation order.
ChainStarted(ch) == SelectSeq(ch.runs, LAMBDA i : runs[i].pc # "created")

NoManualRun ==
    /\ \A i \in RunIds : runs[i].trigger # "manual"
    /\ call["ui"].trigger # "manual"

KeySet(keys) == {keys[h] : h \in 1..Len(keys)}
LowerKeys(keys) == [h \in 1..Len(keys) |-> lower(keys[h])]

\* The bindings of the map whose key list is keys.
BindingsWith(bs, keys) == {j \in 1..Len(bs) : bs[j].keys = keys}

CaseTwins(bs, name, keys) ==
    {j \in 1..Len(bs) : bs[j].name # name /\ LowerKeys(bs[j].keys) = LowerKeys(keys)}

\* C14: register_hotkey with a key list equal, ignoring letter case, to that of
\* a binding (of another name, served by the listener) raises the conflict
\* error, and the callback the listener invokes for that binding's keys stays
\* that binding's.
C14_ConflictIgnoresCase ==
    [][(/\ hk_last'.op = "register"
        /\ \E j \in CaseTwins(bindings, hk_last'.name, hk_last'.keys) :
              Invoked(listener, bindings[j].keys) = bindings[j].callback) =>
          /\ hk_last'.raised
          /\ \A j \in CaseTwins(bindings, hk_last'.name, hk_last'.keys) :
                Invoked(listener', bindings[j].keys)
                    = Invoked(listener, bindings[j].keys)]_vars

\* C15: no two bindings of the map have the same ordered key tuple.
C15_KeyTuplesUnique ==
    \A j, k \in 1..Len(bindings) : j # k => bindings[j].keys # bindings[k].keys

\* C15 witness: with three bindings in the map, the first was just given new
\* keys by a registration under its name.
C15_Witness ==
    /\ Len(bindings) = 3
    /\ hk_last.op = "register"
    /\ ~hk_last.raised
    /\ bindings[1].name = hk_last.name
    /\ bindings[1].keys = hk_last.keys

\* C16: never two listeners active at once; no listener when the map is
\* empty, one when it is not; the listener invokes, for the keys of every
\* binding of the map, that binding's own callback.
C16_ListenerServesEveryBinding ==
    /\ active_listeners <= 1
    /\ peak_listeners <= 1
    /\ (bindings = <<>>) <=> (listener = NoListener)
    /\ \A j \in 1..Len(bindings) :
          Invoked(listener, bindings[j].keys) = bindings[j].callback

\* One key list is a reordering of the other, or its keys are among the other's.
PermutationOrSubset(k1, k2) ==
    /\ k1 # k2
    /\ KeySet(k1) \subseteq KeySet(k2) \/ KeySet(k2) \subseteq KeySet(k1)

\* C17: register_hotkey with a key list that is a permutation or a sub- or
\* superset of the key list of a binding of another name, and the exact key
\* list of none, succeeds, and both bindings are in the map afterwards.
C17_PermutationsDoNotConflict ==
    [][(/\ hk_last'.op = "register"
        /\ BindingsWith(bindings, hk_last'.keys) = {}) =>
          \A j \in 1..Len(bindings) :
            (/\ bindings[j].name # hk_last'.name
             /\ PermutationOrSubset(bindings[j].keys, hk_last'.keys)) =>
                /\ ~hk_last'.raised
                /\ \E k \in 1..Len(bindings') : bindings'[k] = bindings[j]
                /\ \E k \in 1..Len(bindings') :
                      /\ bindings'[k].name = hk_last'.name
                      /\ bindings'[k].keys = hk_last'.keys]_vars

\* C17 witness: a registration just succeeded with a reordering of the keys of
\* another binding of the map.
C17_Witness ==
    /\ hk_last.op = "register"
    /\ ~hk_last.raised
    /\ \E j \in 1..Len(bindings) :
        /\ bindings[j].name # hk_last.name
        /\ bindings[j].keys # hk_last.keys
        /\ KeySet(bindings[j].keys) = KeySet(hk_last.keys)
    /\ \E k \in 1..Len(bindings) :
        bindings[k].name = hk_last.name /\ bindings[k].keys = hk_last.keys

ClosingAt(e) ==
    IF \E j \in 1..Len(closing) : closing[j] = e
    THEN CHOOSE j \in 1..Len(closing) : closing[j] = e
    ELSE 0

\* Both done: a before b.
ClosingBefore(a, b) ==
    (ClosingAt(a) > 0 /\ ClosingAt(b) > 0) => ClosingAt(a) < ClosingAt(b)

\* C12: shutdown requests the stop of the active run and waits for the worker
\* before it stops the hotkey listener, then the scheduler, then releases the
\* browser.
C12_ShutdownOrder ==
    /\ ClosingBefore("request_stop", "wait")
    /\ ClosingBefore("wait", "waited")
    /\ ClosingBefore("waited", "hotkeys.stop")
    /\ ClosingBefore("hotkeys.stop", "scheduler.shutdown")
    /\ ClosingBefore("scheduler.shutdown", "browser.shutdown")
    /\ ClosingBefore("request_stop", "browser.shutdown")

AllStepLogs ==
    {current_run.step_logs[j] : j \in 1..(IF current_run = NoRun THEN 0
                                          ELSE Len(current_run.step_logs))}
        \cup UNION {{log_file[k].step_logs[j] : j \in 1..Len(log_file[k].step_logs)} :
                     k \in 1..Len(log_file)}

\* C22: the browser session is created lazily by the first browser step that
\* finds none, so no browser step ever fails for want of a session: no StepLog
\* carries the error of _require_driver.
C22_SessionCreatedLazily ==
    \A l \in AllStepLogs : l.error # NoDriverMessage

\* The action tags of the runner's flow, in order.
StepKinds(r) == [j \in 1..NSteps(r) |-> r.flow.steps[j].action]

\* C23: a run of the flow [browser_open, browser_click] that takes up the
\* browser_open step without that step succeeding emits run_finished with
\* status Failed, and its RunRecord holds exactly one StepLog, Failed, for
\* browser_open; browser_click is neither logged nor executed.
C23_BrowserOpenFaultFailsRun ==
    \A i \in RunIds :
        LET r == runs[i] IN
        (/\ Ended(r)
         /\ StepKinds(r) = <<"browser_open", "browser_click">>
         /\ r.stopAt # 0
         /\ ~(Len(r.outcomes) >= 1 /\ r.outcomes[1] = "ok")) =>
            /\ EmittedRunFinished(r, Failed)
            /\ NExecuted(r) <= 1
            /\ Len(log_file) = 1
            /\ log_file[1].status = Failed
            /\ Len(log_file[1].step_logs) = 1
            /\ log_file[1].step_logs[1].index = 0
            /\ log_file[1].step_logs[1].action = "browser_open"
            /\ log_file[1].step_logs[1].status = Failed

\* Every step of the runner's flow was executed and returned.
AllStepsSucceeded(r) ==
    /\ Len(r.outcomes) = NSteps(r)
    /\ \A k \in 1..Len(r.outcomes) : r.outcomes[k] = "ok"

\* C24: a run of a flow of N steps in which every execute succeeds and no stop
\* is requested finishes with status Completed, and its RunRecord holds exactly
\* N StepLogs, indices 0..N-1 in order, all finished with status Success.
C24_AllSuccessCompletes ==
    \A i \in RunIds :
        LET r == runs[i] IN
        (Ended(r) /\ ~r.stop_requested /\ AllStepsSucceeded(r)) =>
            /\ r.status = Completed
            /\ EmittedRunFinished(r, Completed)
            /\ Len(log_file) = 1
            /\ log_file[1].status = Completed
            /\ log_file[1].finished
            /\ Len(log_file[1].step_logs) = NSteps(r)
            /\ \A j \in 1..NSteps(r) :
                LET e == log_file[1].step_logs[j] IN
                /\ e.index = j - 1
                /\ e.action = r.flow.steps[j].action
                /\ e.finished
                /\ e.status = Success
                /\ e.error = None

\* C24 witness: an ended run of [wait, click], both executed with success, with
\* no stop request, whose record is in the run log.
C24_Witness ==
    \E i \in RunIds :
        /\ Ended(runs[i])
        /\ ~runs[i].stop_requested
        /\ StepKinds(runs[i]) = <<"wait", "click">>
        /\ AllStepsSucceeded(runs[i])
        /\ Len(log_file) = 1

\* C25: create_action returns an Action for every step whose kind is in the
\* action-kind vocabulary and whose parameters are the documented ones or their
\* defaults, and raises for every kind outside the vocabulary: a step is
\* executed only if its kind is in the vocabulary, and a run is left by the
\* exception of create_action only at a step whose kind is outside it (or
\* whose parameters do not convert).
C25_FactoryCoversVocabulary ==
    \A i \in RunIds :
        LET r == runs[i] IN
        /\ r.pc = "exec" => r.flow.steps[r.index + 1].action \in ActionKinds
        /\ (r.exc /\ r.flow.steps[r.index + 1].params = "ok") =>
                r.flow.steps[r.index + 1].action \notin ActionKinds

\* C26: a finish_run call made with an active run sets the record's terminal
\* status, appends exactly that one record to the run log, clears the in-memory
\* record and returns the finalized record; and no logger call changes or
\* removes a line of the log: the log after a call extends the log before it.
C26_FinishRunAppendsOneRecord ==
    [][/\ IsPrefix(log_file, log_file')
       /\ (returned'.op = "finish_run" /\ current_run # NoRun) =>
            /\ returned'.value =
                  [current_run EXCEPT !.status = returned'.status, !.finished = TRUE]
            /\ log_file' = Append(log_file, returned'.value)
            /\ current_run' = NoRun]_vars

\* C26 witness: finish_run has returned a record with a StepLog, and it is the
\* second line of the run log.
C26_Witness ==
    /\ returned.op = "finish_run"
    /\ returned.value # NoRun
    /\ Len(returned.value.step_logs) >= 1
    /\ Len(log_file) = 2
    /\ log_file[2] = returned.value

\* C27: finish_run with no active run returns None and writes nothing;
\* log_step_start and log_step_finish with no active run, and log_step_finish
\* for an index no StepLog has, return None and leave the in-memory record and
\* the run log as they were.
C27_LoggerMisuseIsNoOp ==
    [][/\ (returned'.op \in {"finish_run", "log_step_start", "log_step_finish"}
            /\ current_run = NoRun) =>
                /\ returned'.value = NoRun
                /\ UNCHANGED <<current_run, log_file>>
       /\ (/\ returned'.op = "log_step_finish"
           /\ current_run # NoRun
           /\ \A j \in 1..Len(current_run.step_logs) :
                  current_run.step_logs[j].index # returned'.index) =>
                /\ returned'.value = NoRun
                /\ UNCHANGED <<current_run, log_file>>]_vars

\* C27 witness: log_step_finish was called for an index that no StepLog of the
\* active record has, after a run had been written to the log.
C27_Witness ==
    /\ returned.op = "log_step_finish"
    /\ current_run # NoRun
    /\ Len(current_run.step_logs) = 1
    /\ current_run.step_logs[1].index # returned.index
    /\ Len(log_file) = 1

\* The start_run calls made by the first n RunnerThreads.
RECURSIVE StartRunCalls(_)
StartRunCalls(n) == IF n = 0 THEN 0 ELSE runs[n].begun + StartRunCalls(n - 1)

\* The RunRecords made by start_run and not finalized by finish_run: every
\* finish_run that finalizes a record writes it to the run log.
LiveRecords == StartRunCalls(Len(runs)) - Len(log_file)

StepLogsFollowFlow(rec) ==
    \E f \in FlowSet :
        /\ f.flow_id = rec.flow_id
        /\ Len(rec.step_logs) <= Len(f.steps)
        /\ \A j \in 1..Len(rec.step_logs) :
            /\ rec.step_logs[j].index = j - 1
            /\ rec.step_logs[j].action = f.steps[j].action

ScheduleOps == {"schedule_daily", "schedule_weekly", "schedule_cron"}

\* The jobs the scheduler holds under the id, and the entries of _jobs.
StoredUnder(store, job_id) == {j \in 1..Len(store) : store[j].id = job_id}
ListedUnder(js, job_id) == {j \in js : j.job_id = job_id}

\* C30: after a schedule_daily, schedule_weekly or schedule_cron call that
\* returns, exactly one job with the id exists, in the scheduler and in _jobs,
\* carrying the callback and the trigger of the call, also when the id was
\* held before, and the jobs under other ids are as they were; a call that
\* repeats the call before it changes nothing.
C30_ScheduleReplaces ==
    [][/\ (returned'.op \in ScheduleOps /\ ~returned'.raised) =>
            LET id == returned'.job_id
                e == returned'.expression
            IN
            /\ Cardinality(StoredUnder(aps_jobs', id)) = 1
            /\ Cardinality(ListedUnder(jobs', id)) = 1
            /\ \A j \in StoredUnder(aps_jobs', id) :
                /\ aps_jobs'[j].callback = returned'.callback
                /\ IF returned'.op = "schedule_cron"
                   THEN aps_jobs'[j].trigger.crontab = e.text
                   ELSE /\ aps_jobs'[j].trigger.crontab = None
                        /\ aps_jobs'[j].trigger.hour = e.time[1]
                        /\ aps_jobs'[j].trigger.minute = e.time[2]
                        /\ aps_jobs'[j].trigger.day_of_week =
                              IF returned'.op = "schedule_weekly" THEN e.days ELSE "*"
            /\ \A other \in JobIds \ {id} :
                /\ ListedUnder(jobs', other) = ListedUnder(jobs, other)
                /\ {aps_jobs'[j] : j \in StoredUnder(aps_jobs', other)} =
                       {aps_jobs[j] : j \in StoredUnder(aps_jobs, other)}
       /\ (returned' = returned /\ returned.op \in ScheduleOps) =>
            UNCHANGED <<jobs, aps_jobs>>]_vars

\* C30 witness: a schedule call has replaced a job held under its id, while a
\* job under another id is held too.
C30_Witness ==
    /\ returned.op \in ScheduleOps
    /\ returned.existed
    /\ ~returned.raised
    /\ Len(aps_jobs) = 2
    /\ Cardinality(jobs) = 2

\* C31: remove_job with an id that is not scheduled (no entry of _jobs has it)
\* changes neither _jobs nor the jobs of the underlying scheduler and raises
\* nothing, in every state, after shutdown too.
C31_RemoveUnknownJobIsNoOp ==
    [][(returned'.op = "remove_job" /\ ListedUnder(jobs, returned'.job_id) = {}) =>
            /\ ~returned'.raised
            /\ UNCHANGED <<jobs, aps_jobs, scheduler_up>>]_vars

\* C31 witness: remove_job was called after shutdown with the id of a job that
\* had been scheduled, and the scheduler still holds what it held.
C31_Witness ==
    /\ returned.op = "remove_job"
    /\ ~returned.existed
    /\ ~scheduler_up
    /\ StoredUnder(aps_jobs, returned.job_id) # {}

\* C32: saving the flows and loading the file again gives flows equal to the
\* ones saved, field by field and in the same order (with no triggers or no
\* steps too), and to_dict followed by from_dict gives back each flow.
C32_FlowRoundTrip ==
    [][/\ (returned.op = "save_flows" /\ returned'.op = "load_flows") => flows' = flows
       /\ \A j \in 1..Len(flows') : from_dict(to_dict(flows'[j])) = flows'[j]]_vars

\* C32 witness: the list was saved and loaded again with a flow that has no
\* steps and no triggers after a flow with a hotkey trigger that has no keys.
C32_Witness ==
    /\ returned.op = "load_flows"
    /\ Len(flows) = 2
    /\ flows[1].hotkey = HotkeyTrigger(<<>>)
    /\ flows[1].steps # <<>>
    /\ flows[2].steps = <<>> /\ flows[2].hotkey = Null /\ flows[2].schedule = Null

\* The step a StepLog of the run's record was written for.
LoggedStep(r, log) == r.flow.steps[log.index + 1]

\* C33: the params summary logged for a type_text or browser_type step does
\* not depend on what the text says: a step of the same kind with another
\* text of the same length gives the very summary that was logged.
C33_SummaryHidesText ==
    \A k \in 1..Len(log_file) : \A j \in 1..Len(log_file[k].step_logs) :
        LET log == log_file[k].step_logs[j]
            step == LoggedStep(runs[1], log)
        IN  log.action \in TextKinds =>
                \A t \in Texts :
                    Len(t) = Len(step.params) =>
                        log.params_summary = summary(Step(log.action, t))

\* C33 witness: the log holds a record with the StepLogs of a type_text and
\* of a browser_type step.
C33_Witness ==
    \E k \in 1..Len(log_file) :
        {"type_text", "browser_type"} \subseteq
            {log_file[k].step_logs[j].action : j \in 1..Len(log_file[k].step_logs)}

C35_StoppedOnlyWithStepLeft ==
    \A i \in 1..Len(runs) :
        LET r == runs[i] IN
        /\ r.status = Stopped => Len(r.outcomes) < NSteps(r)
        /\ (/\ r.stop_requested
            /\ \/ NSteps(r) = 0
               \/ r.stopAt = NSteps(r)) =>
                /\ r.status # Stopped
                /\ Ended(r) /\ ~r.exc =>
                        r.status = IF r.outcomes # <<>> /\ r.outcomes[Len(r.outcomes)] = "raise"
                                   THEN Failed ELSE Completed

\* C35 witness: the stop came while the last of two steps was executing, the
\* step then succeeded and the run ended Completed.
C35_Witness ==
    /\ NSteps(runs[1]) = 2
    /\ runs[1].stopDuring = 1
    /\ runs[1].outcomes = <<"ok", "ok">>
    /\ Ended(runs[1])
    /\ runs[1].status = Completed

\* The StepLogs of a record end well: each is finished with status Success or
\* Failed, only the last can be Failed, and the record is Failed exactly when
\* its last StepLog is.
StepLogsTerminal(rec) ==
    LET logs == rec.step_logs
        n == Len(logs)
    IN  /\ \A j \in 1..n : logs[j].finished /\ logs[j].status \in {Success, Failed}
        /\ \A j \in 1..(n - 1) : logs[j].status # Failed
        /\ rec.status = Failed <=> (n > 0 /\ logs[n].status = Failed)

C38_EmergencyStopNotShadowed ==
    hk_last.op = "apply_startup_triggers" =>
        /\ \E j \in 1..Len(bindings) :
                /\ bindings[j].name = "emergency_stop"
                /\ bindings[j].callback = "_stop_run"
        /\ Invoked(listener, DEFAULT_HOTKEY) = "_stop_run"

\* The names the HotkeyManager holds bindings under.
BindingNames == {bindings[j].name : j \in 1..Len(bindings)}

\* C40: after a flows file is loaded the HotkeyManager holds the
\* emergency_stop binding only and the scheduler holds no job, whatever
\* triggers the loaded flows and the settings carry; it stays so until
\* _apply_startup_triggers runs again.
C40_LoadLeavesTriggersUnregistered ==
    hk_last.op = "load_flows_from_path" =>
        /\ BindingNames = {"emergency_stop"}
        /\ DOMAIN listener.hotkeys = {pynput_keys(DEFAULT_HOTKEY)}
        /\ jobs = {}
        /\ aps_jobs = <<>>

\* C40 witness: a file whose flows have a hotkey and a schedule trigger was
\* loaded into a window that had its startup triggers applied.
C40_Witness ==
    /\ hk_last.op = "load_flows_from_path"
    /\ \E j \in 1..Len(flows) : flows[j].hotkey
    /\ \E j \in 1..Len(flows) : flows[j].schedule
    /\ active_listeners = 1

\* C39: a RunRecord made by start_run is written to the run log at most once:
\* exactly once, by the finish_run called while it is the live record, after
\* which it is live no more and a further finish_run writes nothing; a
\* start_run called while a record is live replaces it with a new record and
\* writes nothing, and no other call writes to the log, so the replaced
\* record, which the logger holds nowhere, is never written.
C39_RecordPersistedAtMostOnce ==
    [][/\ returned'.op = "start_run" =>
            /\ log_file' = log_file
            /\ current_run' = returned'.value
            /\ current_run'.step_logs = <<>> /\ ~current_run'.finished
       /\ (returned'.op = "finish_run" /\ current_run # NoRun) =>
            /\ log_file' = Append(log_file, [current_run EXCEPT !.status = returned'.status,
                                                                 !.finished = TRUE])
            /\ current_run' = NoRun
       /\ (returned'.op = "finish_run" /\ current_run = NoRun) =>
            /\ log_file' = log_file
            /\ current_run' = NoRun
       /\ returned'.op \in {"log_step_start", "log_step_finish"} => log_file' = log_file]_vars

\* C39 witness: start_run was called while a record was live, after a first
\* record had been written to the log.
C39_Witness ==
    /\ returned.op = "start_run"
    /\ returned.replaced
    /\ current_run = returned.value
    /\ Len(log_file) = 1

====
